---- MODULE Spec2Model ----
(***************************************************************************)
(* A model of siyi_sdk.py: the SIYISDK session (connect / disconnect, the  *)
(* receive, supervisor and polling threads) and the frame decoder and      *)
(* command dispatcher of bufferCallback with the parse* handlers.          *)
(*                                                                         *)
(* Hex strings (bytes.hex()) are sequences of hex digits 0..15, two per    *)
(* byte.  Fixed-point values are kept as the integer before the division   *)
(* (x / 10. is stored as x, in tenths).                                     *)
(***************************************************************************)
EXTENDS Integers, Sequences, FiniteSets, TLC

VARIABLES
    store,        \* the telemetry records created by resetVars
    connected,    \* self._connected
    last_fw_seq,  \* self._last_fw_seq
    stop,         \* self._stop
    sockOpen,     \* self._socket has not been closed
    pending,      \* requests that reached the peer and whose answer, if the peer
                  \* gives one, has not been received yet
    threads,      \* the Thread objects of each connect attempt, the last being the
                  \* ones the handles refer to (none yet: those of __init__)
    caller,       \* the caller's thread: where it is in connect / disconnect
    hist,         \* history of the current call, for stating the properties
    chunks,       \* decoder runs: the datagrams still to be received
    log,          \* decoder runs: the frames dispatched so far
    prev,         \* decoder runs: the store before the last datagram
    raised,       \* decoder runs: an exception has left bufferCallback
    scen,         \* decoder runs: what the datagrams were built from
    api,          \* the last image mode call of the user's thread and what it returned
    cuts,         \* decoder runs: the packets handed to decodeMsg so far, each with
                  \* the position in its datagram's hex string it was cut at
    work,         \* decoder runs, pass by pass: the local buff_str of bufferCallback
    last_att_seq, \* self._last_att_seq
    rot,          \* pointing: the caller's thread in setGimbalRotation and its locals
    out_msg,      \* pointing: the last angle or speed request handed to the encoder
    sent,         \* pointing: how many such requests there were
    writer,       \* pointing: the receive thread inside parseAttitudeMsg
    lim           \* pointing: the limits of cameras.py, per camera model

connVars == <<connected, last_fw_seq, stop, sockOpen, pending, threads, caller, hist>>
decVars == <<chunks, log, prev, raised, scen, api, cuts, work>>
rotVars == <<last_att_seq, rot, out_msg, sent, writer, lim>>
vars == <<store, connected, last_fw_seq, stop, sockOpen, pending, threads,
          caller, hist, chunks, log, prev, raised, scen, api, cuts, work, last_att_seq,
          rot, out_msg, sent, writer, lim>>

(***************************************************************************)
(* Python strings and integers                                             *)
(***************************************************************************)
Min(a, b) == IF a < b THEN a ELSE b

\* s[a:b] of a Python string, 0 <= a <= b
Slice(s, a, b) == SubSeq(s, a + 1, Min(b, Len(s)))

\* s[a:]
SliceFrom(s, a) == SubSeq(s, a + 1, Len(s))

RECURSIVE HexVal(_)
\* int('0x' + s, base=16) for a non-empty s (an empty s raises ValueError)
HexVal(s) == IF Len(s) = 0 THEN 0 ELSE 16 * HexVal(SubSeq(s, 1, Len(s) - 1)) + s[Len(s)]

\* one byte as two hex digits
HexByte(b) == <<b \div 16, b % 16>>

RECURSIVE HexOf(_)
\* bytes.hex()
HexOf(bs) == IF Len(bs) = 0 THEN <<>> ELSE HexByte(bs[1]) \o HexOf(Tail(bs))

RECURSIVE BytesOf(_)
\* bytes.fromhex() of an even-length hex string
BytesOf(h) == IF Len(h) < 2 THEN <<>> ELSE <<16 * h[1] + h[2]>> \o BytesOf(SliceFrom(h, 2))

\* a 16-bit value as low byte, high byte: the protocol's swapped order
Swap16(v) == <<v % 256, (v \div 256) % 256>>

(***************************************************************************)
(* The wire format (siyi_message.py is not among the source files: the     *)
(* frame layout, the command ids, the records' initial values and utils'   *)
(* toInt are taken from the specification's wire format and data model).    *)
(***************************************************************************)
HEADER == <<5, 5, 6, 6>>

\* 10 bytes: STX+CTRL+Data_len+SEQ+CMD_ID+CRC16, in hex digits
MINIMUM_DATA_LENGTH == 20

ACQUIRE_FW_VER == 1
ACQUIRE_HW_ID == 2
ACQUIRE_GIMBAL_INFO == 10
ACQUIRE_GIMBAL_ATT == 13
SET_DATA_STREAM == 37
REQUEST_GIMBAL_CAMERA_IMAGE_MODE == 16

\* a command id that no branch of bufferCallback's if / elif chain tests for
UNRECOGNIZED_CMD == 255

RECURSIVE SumSeq(_)
SumSeq(bs) == IF Len(bs) = 0 THEN 0 ELSE bs[1] + SumSeq(Tail(bs))

\* the 16-bit checksum of a frame's bytes, as hex digits in swapped order
Checksum(h) == HexOf(Swap16(SumSeq(BytesOf(h)) % 65536))

\* the frame a peer builds: header, ctrl, length, sequence, command id, payload, checksum
EncodeFrame(ctrl, seq, cmd, data) ==
    LET body == HEADER \o HexByte(ctrl) \o HexOf(Swap16(Len(data))) \o HexOf(Swap16(seq))
                  \o HexByte(cmd) \o HexOf(data)
    IN  body \o Checksum(body)

\* a decodeMsg that does not compare the checksum
decodeMsg_unchecked(packet) ==
    LET data_len == HexVal(Slice(packet, 8, 10) \o Slice(packet, 6, 8))
    IN  [ok |-> TRUE,
         data |-> Slice(packet, 16, 16 + 2 * data_len),
         cmd_id |-> HexVal(Slice(packet, 14, 16)),
         seq |-> HexVal(Slice(packet, 12, 14) \o Slice(packet, 10, 12))]

\* SIYIMESSAGE.decodeMsg: None (ok = FALSE) on a checksum mismatch, else
\* (data, data_len, cmd_id, seq)
decodeMsg(packet) ==
    LET n == Len(packet)
        data_len == HexVal(Slice(packet, 8, 10) \o Slice(packet, 6, 8))
    IN  IF n < MINIMUM_DATA_LENGTH \/ Checksum(Slice(packet, 0, n - 4)) # SliceFrom(packet, n - 4)
        THEN [ok |-> FALSE, data |-> <<>>, cmd_id |-> 0, seq |-> 0]
        ELSE [ok |-> TRUE,
              data |-> Slice(packet, 16, 16 + 2 * data_len),
              cmd_id |-> HexVal(Slice(packet, 14, 16)),
              seq |-> HexVal(Slice(packet, 12, 14) \o Slice(packet, 10, 12))]

\* utils.toInt: a hex string as a signed 16-bit integer
toInt(h) == LET v == HexVal(h) IN IF v >= 32768 THEN v - 65536 ELSE v

\* HardwareIDMsg.CAM_DICT, keyed by the two ASCII characters of the camera id
CAM_DICT ==
    [k \in {<<54, 66>>, <<55, 51>>, <<55, 53>>, <<55, 56>>, <<56, 50>>, <<55, 65>>} |->
        CASE k = <<54, 66>> -> "ZR10"
          [] k = <<55, 51>> -> "A8 mini"
          [] k = <<55, 53>> -> "A2 mini"
          [] k = <<55, 56>> -> "ZR30"
          [] k = <<56, 50>> -> "ZT6"
          [] OTHER -> "ZT30"]

(***************************************************************************)
(* The state store                                                         *)
(***************************************************************************)
\* the records resetVars creates
InitStore ==
    [fw  |-> [seq |-> 0, gimbal_firmware_ver |-> <<>>],
     hw  |-> [seq |-> 0, id |-> <<>>, cam_type_str |-> ""],
     rec |-> [seq |-> 0, state |-> -1],
     mode |-> [seq |-> 0, mode |-> -1],
     dir |-> [seq |-> 0, dir |-> -1],
     att |-> [seq |-> 0, val |-> <<0, 0, 0, 0, 0, 0>>],
     img |-> [seq |-> 0, vdisp_mode |-> -1],
     stream |-> [seq |-> 0, data_type |-> -1]]

\* no image mode call has been made
NoCall == [op |-> "none", ok |-> FALSE, mode |-> -1]

\* parseFirmwareMsg: no statement of it can raise
parseFirmwareMsg(st, msg, seq) ==
    [st EXCEPT !.fw = [seq |-> seq, gimbal_firmware_ver |-> Slice(msg, 8, 16)]]

\* a parseHardwareIDMsg that clears the model tag of a camera id it does not know
parseHardwareIDMsg_clears(st, msg, seq) ==
    LET bs == BytesOf(msg)
        s1 == [st EXCEPT !.hw.seq = seq, !.hw.id = msg]
        in_ascii == Slice(bs, 0, 10)
        cam_id == Slice(in_ascii, 0, 2)
        s2 == [s1 EXCEPT !.hw.id = in_ascii]
    IN  IF \E i \in 1..Len(bs) : bs[i] >= 128 THEN s1
        ELSE IF cam_id \in DOMAIN CAM_DICT
             THEN [s2 EXCEPT !.hw.cam_type_str = CAM_DICT[cam_id]]
             ELSE [s2 EXCEPT !.hw.cam_type_str = ""]

\* parseHardwareIDMsg: seq and the raw id are stored first; a byte that is not
\* ASCII raises in decode and leaves them; a camera id that is not in CAM_DICT
\* leaves cam_type_str
parseHardwareIDMsg(st, msg, seq) ==
    LET bs == BytesOf(msg)
        s1 == [st EXCEPT !.hw.seq = seq, !.hw.id = msg]
        in_ascii == Slice(bs, 0, 10)
        cam_id == Slice(in_ascii, 0, 2)
        s2 == [s1 EXCEPT !.hw.id = in_ascii]
    IN  IF \E i \in 1..Len(bs) : bs[i] >= 128 THEN s1
        ELSE IF cam_id \in DOMAIN CAM_DICT
             THEN [s2 EXCEPT !.hw.cam_type_str = CAM_DICT[cam_id]]
             ELSE s2

\* an attitude field read without swapping its bytes
AttField_unswapped(msg, i) == Slice(msg, 4 * i, 4 * i + 4)

\* the hex string the i-th attitude field (i = 0..5) is read from:
\* msg[4i+2:4i+4] + msg[4i:4i+2]
AttField(msg, i) == Slice(msg, 4 * i + 2, 4 * i + 4) \o Slice(msg, 4 * i, 4 * i + 2)

\* the number of attitude fields assigned before toInt raises on an empty string
AttParsed(msg) ==
    IF \E i \in 0..5 : Len(AttField(msg, i)) = 0
    THEN CHOOSE i \in 0..5 : Len(AttField(msg, i)) = 0
                             /\ \A j \in 0..(i - 1) : Len(AttField(msg, j)) # 0
    ELSE 6

\* parseAttitudeMsg: seq first, then yaw, pitch, roll and the three speeds in
\* order, until a statement raises
parseAttitudeMsg(st, msg, seq) ==
    LET n == AttParsed(msg)
    IN  [st EXCEPT !.att = [seq |-> seq,
                            val |-> [i \in 1..6 |-> IF i <= n THEN toInt(AttField(msg, i - 1))
                                                    ELSE st.att.val[i]]]]

\* parseGimbalInfoMsg: the three seq first, then state, mode, dir in order,
\* until int() raises on an empty slice
parseGimbalInfoMsg(st, msg, seq) ==
    LET s0 == [st EXCEPT !.rec.seq = seq, !.dir.seq = seq, !.mode.seq = seq]
        s1 == [s0 EXCEPT !.rec.state = HexVal(Slice(msg, 6, 8))]
        s2 == [s1 EXCEPT !.mode.mode = HexVal(Slice(msg, 8, 10))]
        s3 == [s2 EXCEPT !.dir.dir = HexVal(Slice(msg, 10, 12))]
    IN  IF Len(Slice(msg, 6, 8)) = 0 THEN s0
        ELSE IF Len(Slice(msg, 8, 10)) = 0 THEN s1
        ELSE IF Len(Slice(msg, 10, 12)) = 0 THEN s2
        ELSE s3

\* parseRequestGimbalCameraImageModeMsg: int(msg, 16) raises on an empty payload
\* inside the try and nothing is stored; otherwise seq and vdisp_mode are.
\* parseSendGimbalCameraImageModeMsg, called next, stores nothing: the record
\* it assigns to is never created, and the AttributeError is caught in its try
parseRequestGimbalCameraImageModeMsg(st, msg, seq) ==
    IF Len(msg) = 0 THEN st
    ELSE [st EXCEPT !.img = [seq |-> seq, vdisp_mode |-> HexVal(msg)]]

\* parseRequestStreamMsg, were it called with the frame's payload and sequence number
parseRequestStreamMsg(st, msg, seq) ==
    [st EXCEPT !.stream = [seq |-> seq, data_type |-> HexVal(msg)]]

\* the if / elif chain of bufferCallback on one decoded frame
Dispatch(st, val) ==
    CASE val.cmd_id = ACQUIRE_FW_VER -> parseFirmwareMsg(st, val.data, val.seq)
      [] val.cmd_id = ACQUIRE_HW_ID -> parseHardwareIDMsg(st, val.data, val.seq)
      [] val.cmd_id = ACQUIRE_GIMBAL_INFO -> parseGimbalInfoMsg(st, val.data, val.seq)
      [] val.cmd_id = ACQUIRE_GIMBAL_ATT -> parseAttitudeMsg(st, val.data, val.seq)
      [] val.cmd_id = REQUEST_GIMBAL_CAMERA_IMAGE_MODE ->
             parseRequestGimbalCameraImageModeMsg(st, val.data, val.seq)
      [] OTHER -> st

\* a dispatcher that treats a command id it does not know as an error
DispatchRaises_unrecognized(val) ==
    \/ val.cmd_id \in {SET_DATA_STREAM, UNRECOGNIZED_CMD}
    \/ val.cmd_id = REQUEST_GIMBAL_CAMERA_IMAGE_MODE /\ val.data = <<>>

\* self.parseRequestStreamMsg() is called without its two arguments: TypeError;
\* parseSendGimbalCameraImageModeMsg evaluates int(msg, 16) before its try:
\* ValueError on an empty payload.  Nothing between these calls and the
\* thread's run() catches
DispatchRaises(val) ==
    \/ val.cmd_id = SET_DATA_STREAM
    \/ val.cmd_id = REQUEST_GIMBAL_CAMERA_IMAGE_MODE /\ val.data = <<>>

\* a length field read with the low byte first
DataLen_low_first(buff_str) == HexVal(Slice(buff_str, 6, 8) \o Slice(buff_str, 8, 10))

\* the length field of the frame at the head of buff_str: high_b then low_b
DataLen(buff_str) == HexVal(Slice(buff_str, 8, 10) \o Slice(buff_str, 6, 8))

\* a scan that moves the first character of buff_str to its end
Resync_rotates(buff_str) == SliceFrom(buff_str, 1) \o Slice(buff_str, 0, 1)

\* the head of buff_str is not the header: tmp = buff_str[1:]
Resync(buff_str) == SliceFrom(buff_str, 1)

\* one pass of the body of bufferCallback's while loop, entered with at least
\* MINIMUM_DATA_LENGTH characters in buff_str.  brk: the pass left the loop (by
\* break or by an exception of a handler); cut: the packet the pass handed to
\* decodeMsg, with the number of characters buff_str held when it was cut
LoopBody(st, buff_str, lg) ==
    IF Slice(buff_str, 0, 4) # HEADER
    THEN [store |-> st, log |-> lg, raised |-> FALSE, buff_str |-> Resync(buff_str),
          brk |-> FALSE, cut |-> <<>>]
    ELSE LET data_len == DataLen(buff_str)
             char_len == data_len * 2
             packet == Slice(buff_str, 0, MINIMUM_DATA_LENGTH + char_len)
             rest == SliceFrom(buff_str, MINIMUM_DATA_LENGTH + char_len)
             val == decodeMsg(packet)
             frame == [cmd_id |-> val.cmd_id, seq |-> val.seq, data |-> val.data]
             cut == <<[rem |-> Len(buff_str), packet |-> packet]>>
         IN  IF Len(buff_str) < MINIMUM_DATA_LENGTH + char_len
             THEN [store |-> st, log |-> lg, raised |-> FALSE, buff_str |-> <<>>,
                   brk |-> TRUE, cut |-> <<>>]
             ELSE IF ~val.ok
             THEN [store |-> st, log |-> lg, raised |-> FALSE, buff_str |-> rest,
                   brk |-> FALSE, cut |-> cut]
             ELSE IF DispatchRaises(val)
             THEN [store |-> st, log |-> Append(lg, frame), raised |-> TRUE,
                   buff_str |-> rest, brk |-> TRUE, cut |-> cut]
             ELSE [store |-> Dispatch(st, val), log |-> Append(lg, frame), raised |-> FALSE,
                   buff_str |-> rest, brk |-> FALSE, cut |-> cut]

RECURSIVE BufferLoop(_, _, _)
\* the while loop of bufferCallback on the hex string of one datagram
BufferLoop(st, buff_str, lg) ==
    IF Len(buff_str) < MINIMUM_DATA_LENGTH
    THEN [store |-> st, log |-> lg, raised |-> FALSE, cuts |-> <<>>]
    ELSE LET it == LoopBody(st, buff_str, lg)
             r == BufferLoop(it.store, it.buff_str, it.log)
         IN  IF it.brk
             THEN [store |-> it.store, log |-> it.log, raised |-> it.raised, cuts |-> it.cut]
             ELSE [r EXCEPT !.cuts = it.cut \o r.cuts]

\* bufferCallback once recvfrom has returned the datagram buff; a packet cut
\* with rem characters left was cut at character 2 * len(buff) - rem
bufferCallback(st, buff, lg) ==
    LET r == BufferLoop(st, HexOf(buff), lg)
    IN  [store |-> r.store, log |-> r.log, raised |-> r.raised,
         cuts |-> [i \in 1..Len(r.cuts) |->
                     [at |-> 2 * Len(buff) - r.cuts[i].rem, packet |-> r.cuts[i].packet]]]

(***************************************************************************)
(* Decoder runs: a receive loop fed a fixed list of datagrams               *)
(***************************************************************************)
\* longest garbage prefix, in bytes
MaxGarbage == 3

\* the bytes garbage is made of: 00, 05, 55, 56, 60, 66
GarbageBytes == {0, 5, 85, 86, 96, 102}

Garbage == UNION {[1..m -> GarbageBytes] : m \in 0..MaxGarbage}

\* an attitude payload: yaw 15.5 (9B 00), pitch -10.0 (9C FF), roll 0, speeds 1, 2, 3 tenths
AttPayload == <<155, 0, 156, 255, 0, 0, 1, 0, 2, 0, 3, 0>>

\* a hardware id payload: the ten ASCII characters "6B01234567" (a ZR10)
HwPayload == <<54, 66, 48, 49, 50, 51, 52, 53, 54, 55>>

\* a firmware payload: code board, gimbal and zoom firmware versions, four bytes each
FwPayload == <<1, 2, 3, 4, 5, 6, 7, 8, 9, 10, 11, 12>>

\* a gimbal info payload: reserved bytes, then recording state 1, motion mode 2, direction 1
InfoPayload == <<0, 0, 0, 1, 2, 1>>

\* well-formed frames of the device, as datagram bytes
GoodFrames ==
    <<BytesOf(EncodeFrame(2, 7, ACQUIRE_GIMBAL_ATT, AttPayload)),
      BytesOf(EncodeFrame(2, 3, ACQUIRE_FW_VER, FwPayload)),
      BytesOf(EncodeFrame(2, 258, ACQUIRE_HW_ID, HwPayload)),
      BytesOf(EncodeFrame(2, 4, ACQUIRE_GIMBAL_INFO, InfoPayload))>>

\* frames with a recognized command id, a correct length field and checksum, and
\* a payload that does not fit the command's layout
BadFrames ==
    <<BytesOf(EncodeFrame(2, 9, ACQUIRE_GIMBAL_ATT, <<>>)),
      BytesOf(EncodeFrame(2, 9, ACQUIRE_GIMBAL_ATT, <<100, 0, 50>>)),
      BytesOf(EncodeFrame(2, 9, ACQUIRE_GIMBAL_INFO, <<0, 0, 0, 1>>)),
      BytesOf(EncodeFrame(2, 9, ACQUIRE_GIMBAL_INFO, <<>>)),
      BytesOf(EncodeFrame(2, 9, ACQUIRE_HW_ID, <<54, 66, 200>>))>>

\* frames with a command id bufferCallback does not recognize, without and with payload
UnknownFrames ==
    <<BytesOf(EncodeFrame(2, 5, UNRECOGNIZED_CMD, <<>>)),
      BytesOf(EncodeFrame(2, 5, UNRECOGNIZED_CMD, <<1, 2, 3>>))>>

\* responses of the device to a data stream request and to an image mode
\* request: the acknowledgement, an image mode response with an empty payload,
\* an image mode response with mode 3
AckFrames ==
    <<BytesOf(EncodeFrame(2, 6, SET_DATA_STREAM, <<1>>)),
      BytesOf(EncodeFrame(2, 6, REQUEST_GIMBAL_CAMERA_IMAGE_MODE, <<>>)),
      BytesOf(EncodeFrame(2, 6, REQUEST_GIMBAL_CAMERA_IMAGE_MODE, <<3>>))>>

\* what decodeMsg returns for a well-formed frame
FrameOf(bs) ==
    LET val == decodeMsg(HexOf(bs))
    IN  [cmd_id |-> val.cmd_id, seq |-> val.seq, data |-> val.data]

Scenarios ==
    UNION {{[kind |-> "split", f |-> f, k |-> k, g |-> <<>>] :
                k \in 1..(Len(GoodFrames[f]) - 1)} : f \in 1..Len(GoodFrames)}
    \cup {[kind |-> "whole", f |-> f, k |-> 0, g |-> <<>>] : f \in 1..Len(GoodFrames)}
    \cup {[kind |-> "garbage", f |-> f, k |-> 0, g |-> g] : f \in 1..2, g \in Garbage}
    \cup {[kind |-> "bad", f |-> f, k |-> b, g |-> <<>>] :
            f \in 1..Len(GoodFrames), b \in 1..Len(BadFrames)}
    \cup {[kind |-> "unknown", f |-> f, k |-> u, g |-> <<>>] :
            f \in 1..Len(GoodFrames), u \in 1..Len(UnknownFrames)}
    \cup {[kind |-> "ack", f |-> f, k |-> a, g |-> <<>>] :
            f \in 1..Len(GoodFrames), a \in 1..Len(AckFrames)}

\* the datagrams of a scenario
ChunksOf(sc) ==
    CASE sc.kind = "split" ->
           <<SubSeq(GoodFrames[sc.f], 1, sc.k),
             SubSeq(GoodFrames[sc.f], sc.k + 1, Len(GoodFrames[sc.f]))>>
      [] sc.kind = "whole" -> <<GoodFrames[sc.f]>>
      [] sc.kind = "garbage" -> <<sc.g \o GoodFrames[sc.f]>>
      [] sc.kind = "unknown" -> <<UnknownFrames[sc.k] \o GoodFrames[sc.f], GoodFrames[1]>>
      [] sc.kind = "ack" -> <<AckFrames[sc.k] \o GoodFrames[sc.f], GoodFrames[1]>>
      [] OTHER -> <<GoodFrames[sc.f], BadFrames[sc.k]>>

\* the camera models requestSetAngles has a branch for
Models == {"A8 mini", "ZR10", "ZT6"}

\* limit tables a camera model may have in cameras.py, in degrees
LimitTables ==
    {[MAX_YAW_DEG |-> 135, MIN_YAW_DEG |-> -135, MAX_PITCH_DEG |-> 25, MIN_PITCH_DEG |-> -90],
     [MAX_YAW_DEG |-> 270, MIN_YAW_DEG |-> -270, MAX_PITCH_DEG |-> 40, MIN_PITCH_DEG |-> -120]}

\* all three models with the first table
SameLimits ==
    [m \in Models |->
        [MAX_YAW_DEG |-> 135, MIN_YAW_DEG |-> -135, MAX_PITCH_DEG |-> 25, MIN_PITCH_DEG |-> -90]]

\* bufferCallback is not running: the receive thread is at recvfrom
IdleWork == [pc |-> "recvfrom", buff_str |-> <<>>, total |-> 0]

\* the caller's thread outside setGimbalRotation and requestSetAngles
IdleRot ==
    [pc |-> "idle", yaw |-> 0, pitch |-> 0, yaw_err |-> 0, pitch_err |-> 0,
     fresh |-> FALSE, acc |-> <<>>, op |-> "none", ret |-> "none"]

\* nothing has been handed to the encoder
NoCmd == [kind |-> "none", yaw |-> 0, pitch |-> 0]

\* the receive thread outside parseAttitudeMsg
IdleWriter == [pc |-> "idle", msg |-> <<>>, seq |-> 0, n |-> 0]

\* no pointing operation has been called
RotIdle ==
    /\ last_att_seq = -1
    /\ rot = IdleRot
    /\ out_msg = NoCmd
    /\ sent = 0
    /\ writer = IdleWriter

\* the caller's thread outside connect and disconnect
IdleCaller == [pc |-> "idle", retries |-> 0, maxRetries |-> 0, ret |-> "idle"]

\* nothing has happened yet
InitHist ==
    [attempts |-> 0, discs |-> 0, observed |-> FALSE, boot |-> <<>>, result |-> "none",
     answered |-> FALSE, fresh |-> FALSE, seen |-> <<>>]

\* the session as __init__ leaves it
ConnIdle ==
    /\ connected = FALSE
    /\ last_fw_seq = 0
    /\ stop = FALSE
    /\ sockOpen = TRUE
    /\ pending = {}
    /\ threads = <<>>
    /\ caller = IdleCaller
    /\ hist = InitHist

DecInit ==
    /\ ConnIdle
    /\ RotIdle
    /\ lim = SameLimits
    /\ store = InitStore
    /\ scen \in Scenarios
    /\ chunks = ChunksOf(scen)
    /\ log = <<>>
    /\ prev = InitStore
    /\ raised = FALSE
    /\ cuts = <<>>
    /\ work = IdleWork
    /\ api = NoCall

\* one pass of recvLoop: recvfrom returns the next datagram and bufferCallback
\* decodes and dispatches what it holds
Feed ==
    /\ chunks # <<>>
    /\ ~raised
    /\ LET r == bufferCallback(store, Head(chunks), log)
       IN  /\ store' = r.store
           /\ log' = r.log
           /\ raised' = r.raised
           /\ cuts' = cuts \o r.cuts
    /\ prev' = store
    /\ chunks' = Tail(chunks)
    /\ UNCHANGED <<scen, api, work, connVars, rotVars>>

DecNext == Feed

SpecDec == DecInit /\ [][DecNext]_vars

(***************************************************************************)
(* The session: the caller's thread in connect and disconnect, the four    *)
(* threads of every connect attempt, and the peer                          *)
(***************************************************************************)
\* most Thread object sets (connect attempts) of one run
MaxAttempts == 2

\* largest maxRetries a connect call is given
MaxRetries == 2

\* what the peer answers with: firmware responses with sequence numbers 1 and 2,
\* and the hardware id response
PeerFrames ==
    <<BytesOf(EncodeFrame(2, 1, ACQUIRE_FW_VER, FwPayload)),
      BytesOf(EncodeFrame(2, 2, ACQUIRE_FW_VER, FwPayload)),
      BytesOf(EncodeFrame(2, 1, ACQUIRE_HW_ID, HwPayload))>>

\* the frames that answer a request
AnswersTo(r) == IF r = "fw" THEN {1, 2} ELSE {3}

\* threading.Thread.is_alive(): started and not finished (returned from its
\* loop, or ended by an exception that left it)
is_alive(pc) == pc \notin {"new", "dead", "escaped"}

\* the Thread objects the handles refer to; those of __init__ are never started
Cur == Len(threads)

\* a connect that starts all four threads at once
Started_all_four == [recv |-> "loop", conn |-> "loop", info |-> "run", att |-> "run"]

\* what connect starts before it polls the flag: the receive and the supervisor thread
Started == [recv |-> "loop", conn |-> "loop", info |-> "new", att |-> "new"]

\* sendMsg: the datagram leaves unless the socket is closed (sendto raises, False)
sendMsg(r) == IF sockOpen THEN pending \cup {r} ELSE pending

\* ---- connect -------------------------------------------------------------
\* connect(maxWaitTime, maxRetries = K) is called: retries = 0
connect(K) ==
    /\ caller.pc = "idle"
    /\ Cur + K <= MaxAttempts
    /\ caller' = [pc |-> "c_while", retries |-> 0, maxRetries |-> K, ret |-> "retry"]
    /\ hist' = [hist EXCEPT !.attempts = 0, !.discs = 0, !.observed = FALSE,
                            !.boot = <<>>, !.result = "none"]
    /\ UNCHANGED <<store, connected, last_fw_seq, stop, sockOpen, pending, threads,
                   decVars, rotVars>>

\* while retries < maxRetries: four new Thread objects, the receive and the
\* supervisor thread are started
connect_attempt ==
    /\ caller.pc = "c_while"
    /\ caller.retries < caller.maxRetries
    /\ threads' = Append(threads, Started)
    /\ caller' = [caller EXCEPT !.pc = "c_poll"]
    /\ hist' = [hist EXCEPT !.attempts = @ + 1, !.observed = FALSE, !.seen = Append(@, -1)]
    /\ UNCHANGED <<store, connected, last_fw_seq, stop, sockOpen, pending, decVars, rotVars>>

\* the while condition fails: return False
connect_fail ==
    /\ caller.pc = "c_while"
    /\ ~(caller.retries < caller.maxRetries)
    /\ caller' = [caller EXCEPT !.pc = "idle"]
    /\ hist' = [hist EXCEPT !.result = "false"]
    /\ UNCHANGED <<store, connected, last_fw_seq, stop, sockOpen, pending, threads,
                   decVars, rotVars>>

\* if self._connected: the two polling threads are started
connect_observe ==
    /\ caller.pc = "c_poll"
    /\ connected
    /\ threads' = [threads EXCEPT ![Cur].info = "run", ![Cur].att = "run"]
    /\ caller' = [caller EXCEPT !.pc = "c_hw"]
    /\ hist' = [hist EXCEPT !.observed = TRUE]
    /\ UNCHANGED <<store, connected, last_fw_seq, stop, sockOpen, pending, decVars, rotVars>>

\* (time() - t0) > maxWaitTime and not self._connected: disconnect(), retries += 1
connect_timeout ==
    /\ caller.pc = "c_poll"
    /\ ~connected
    /\ caller' = [caller EXCEPT !.pc = "d_stop", !.ret = "retry"]
    /\ UNCHANGED <<store, connected, last_fw_seq, stop, sockOpen, pending, threads,
                   hist, decVars, rotVars>>

\* self.requestHardwareID()
connect_requestHardwareID ==
    /\ caller.pc = "c_hw"
    /\ pending' = sendMsg("hw")
    /\ caller' = [caller EXCEPT !.pc = "c_zoom"]
    /\ hist' = [hist EXCEPT !.boot = Append(@, "hw")]
    /\ UNCHANGED <<store, connected, last_fw_seq, stop, sockOpen, threads, decVars, rotVars>>

\* self.requestCurrentZoomLevel(); return True
connect_requestCurrentZoomLevel ==
    /\ caller.pc = "c_zoom"
    /\ caller' = [caller EXCEPT !.pc = "idle"]
    /\ hist' = [hist EXCEPT !.boot = Append(@, "zoom"), !.result = "true"]
    /\ UNCHANGED <<store, connected, last_fw_seq, stop, sockOpen, pending, threads,
                   decVars, rotVars>>

\* ---- disconnect ----------------------------------------------------------
\* disconnect() is called by the user
disconnect ==
    /\ caller.pc = "idle"
    /\ caller' = [IdleCaller EXCEPT !.pc = "d_stop"]
    /\ hist' = [hist EXCEPT !.attempts = 0, !.discs = 0, !.observed = FALSE,
                            !.boot = <<>>, !.result = "none"]
    /\ UNCHANGED <<store, connected, last_fw_seq, stop, sockOpen, pending, threads, decVars, rotVars>>

\* self._stop = True
disconnect_stop ==
    /\ caller.pc = "d_stop"
    /\ stop' = TRUE
    /\ caller' = [caller EXCEPT !.pc = "d_close"]
    /\ UNCHANGED <<store, connected, last_fw_seq, sockOpen, pending, threads, hist,
                   decVars, rotVars>>

\* self._socket.close(): what waits in the socket or is on its way is lost
disconnect_close ==
    /\ caller.pc = "d_close"
    /\ sockOpen' = FALSE
    /\ pending' = {}
    /\ caller' = [caller EXCEPT !.pc = "d_join"]
    /\ UNCHANGED <<store, connected, last_fw_seq, stop, threads, hist, decVars, rotVars>>

\* the four is_alive() / join() pairs: returns once none of the four threads the
\* handles refer to is alive
disconnect_join ==
    /\ caller.pc = "d_join"
    /\ Cur > 0 => \A k \in DOMAIN Started : ~is_alive(threads[Cur][k])
    /\ caller' = [caller EXCEPT !.pc = "d_reset"]
    /\ UNCHANGED <<store, connected, last_fw_seq, stop, sockOpen, pending, threads,
                   hist, decVars, rotVars>>

\* self.resetVars()
resetVars ==
    /\ caller.pc = "d_reset"
    /\ connected' = FALSE
    /\ store' = InitStore
    /\ caller' = [caller EXCEPT !.pc = "d_clear"]
    /\ hist' = [hist EXCEPT !.fresh = FALSE]
    /\ last_att_seq' = -1
    /\ UNCHANGED <<last_fw_seq, stop, sockOpen, pending, threads, decVars, rot, out_msg, sent,
                   writer, lim>>

\* a disconnect_return that forgets retries += 1
disconnect_return_no_count ==
    /\ caller.pc = "d_clear"
    /\ stop' = FALSE
    /\ caller' = IF caller.ret = "retry" THEN [caller EXCEPT !.pc = "c_while"] ELSE IdleCaller
    /\ hist' = IF caller.ret = "retry" THEN [hist EXCEPT !.discs = @ + 1] ELSE hist
    /\ UNCHANGED <<store, connected, last_fw_seq, sockOpen, pending, threads, decVars, rotVars>>

\* self._stop = False, and disconnect returns: to the user, or into connect
\* (retries += 1, break)
disconnect_return ==
    /\ caller.pc = "d_clear"
    /\ stop' = FALSE
    /\ caller' = IF caller.ret = "retry"
                 THEN [caller EXCEPT !.pc = "c_while", !.retries = @ + 1]
                 ELSE IdleCaller
    /\ hist' = IF caller.ret = "retry" THEN [hist EXCEPT !.discs = @ + 1] ELSE hist
    /\ UNCHANGED <<store, connected, last_fw_seq, sockOpen, pending, threads, decVars, rotVars>>

\* ---- the receive thread ---------------------------------------------------
\* recvLoop: while (not self._stop)
recvLoop(g) ==
    /\ threads[g].recv = "loop"
    /\ threads' = [threads EXCEPT ![g].recv = IF stop THEN "dead" ELSE "recv"]
    /\ UNCHANGED <<store, connected, last_fw_seq, stop, sockOpen, pending, caller,
                   hist, decVars, rotVars>>

\* bufferCallback: recvfrom returns the peer's answer i to request r, which is
\* decoded and dispatched
recv_data(g, r, i) ==
    /\ threads[g].recv = "recv"
    /\ sockOpen
    /\ r \in pending
    /\ i \in AnswersTo(r)
    /\ LET res == bufferCallback(store, PeerFrames[i], <<>>)
       IN  /\ store' = res.store
           /\ threads' = [threads EXCEPT ![g].recv = IF res.raised THEN "dead" ELSE "loop"]
    /\ pending' = pending \ {r}
    /\ hist' = [hist EXCEPT !.answered = TRUE]
    /\ UNCHANGED <<connected, last_fw_seq, stop, sockOpen, caller, decVars, rotVars>>

\* bufferCallback: recvfrom raises (the timeout of 5 s with no datagram, or the
\* socket is closed), which is logged
recv_raises(g) ==
    /\ threads[g].recv = "recv"
    /\ threads' = [threads EXCEPT ![g].recv = "loop"]
    /\ UNCHANGED <<store, connected, last_fw_seq, stop, sockOpen, pending, caller,
                   hist, decVars, rotVars>>

\* ---- the supervisor thread ------------------------------------------------
\* connectionLoop: while not self._stop; checkConnection sends the firmware
\* version request and sleeps 0.1 s
connectionLoop(g) ==
    /\ threads[g].conn = "loop"
    /\ IF stop
       THEN /\ threads' = [threads EXCEPT ![g].conn = "dead"]
            /\ UNCHANGED pending
       ELSE /\ threads' = [threads EXCEPT ![g].conn = "test"]
            /\ pending' = sendMsg("fw")
    /\ UNCHANGED <<store, connected, last_fw_seq, stop, sockOpen, caller, hist,
                   decVars, rotVars>>

\* a condition that forgets the version string
FwFresh_seq_only == store.fw.seq # last_fw_seq

\* the condition of checkConnection
FwFresh == store.fw.seq # last_fw_seq /\ Len(store.fw.gimbal_firmware_ver) > 0

\* checkConnection: the if is evaluated
checkConnection_test(g) ==
    /\ threads[g].conn = "test"
    /\ threads' = [threads EXCEPT ![g].conn = IF FwFresh THEN "set_true" ELSE "set_false"]
    /\ hist' = [hist EXCEPT !.fresh = @ \/ FwFresh, !.seen[g] = store.fw.seq]
    /\ UNCHANGED <<store, connected, last_fw_seq, stop, sockOpen, pending, caller,
                   decVars, rotVars>>

\* a checkConnection whose else branch also asks the threads to stop
checkConnection_set_stops(g) ==
    /\ threads[g].conn \in {"set_true", "set_false"}
    /\ IF threads[g].conn = "set_true"
       THEN /\ connected' = TRUE
            /\ last_fw_seq' = store.fw.seq
            /\ UNCHANGED stop
       ELSE /\ connected' = FALSE
            /\ stop' = TRUE
            /\ UNCHANGED last_fw_seq
    /\ threads' = [threads EXCEPT ![g].conn = "loop"]
    /\ hist' = [hist EXCEPT !.seen[g] = -1]
    /\ UNCHANGED <<store, sockOpen, pending, caller, decVars, rotVars>>

\* checkConnection: the branch taken is executed, then sleep(t)
checkConnection_set(g) ==
    /\ threads[g].conn \in {"set_true", "set_false"}
    /\ IF threads[g].conn = "set_true"
       THEN /\ connected' = TRUE
            /\ last_fw_seq' = store.fw.seq
       ELSE /\ connected' = FALSE
            /\ UNCHANGED last_fw_seq
    /\ threads' = [threads EXCEPT ![g].conn = "loop"]
    /\ hist' = [hist EXCEPT !.seen[g] = -1]
    /\ UNCHANGED <<store, stop, sockOpen, pending, caller, decVars, rotVars>>

\* ---- the polling threads --------------------------------------------------
\* gimbalInfoLoop: while not self._stop: requestGimbalInfo(), sleep(t); the
\* request and its answer are not tracked (pending holds the firmware and the
\* hardware id requests only)
gimbalInfoLoop(g) ==
    /\ threads[g].info = "run"
    /\ threads' = [threads EXCEPT ![g].info = IF stop THEN "dead" ELSE "run"]
    /\ UNCHANGED <<store, connected, last_fw_seq, stop, sockOpen, pending, caller,
                   hist, decVars, rotVars>>

\* gimbalAttLoop: while not self._stop: requestGimbalAttitude(), sleep(t); the
\* request and its answer are not tracked either
gimbalAttLoop(g) ==
    /\ threads[g].att = "run"
    /\ threads' = [threads EXCEPT ![g].att = IF stop THEN "dead" ELSE "run"]
    /\ UNCHANGED <<store, connected, last_fw_seq, stop, sockOpen, pending, caller,
                   hist, decVars, rotVars>>

Init ==
    /\ ConnIdle
    /\ RotIdle
    /\ lim = SameLimits
    /\ store = InitStore
    /\ scen = [kind |-> "session", f |-> 0, k |-> 0, g |-> <<>>]
    /\ chunks = <<>>
    /\ log = <<>>
    /\ prev = InitStore
    /\ raised = FALSE
    /\ cuts = <<>>
    /\ work = IdleWork
    /\ api = NoCall

Requests == {"fw", "hw"}

Next ==
    \/ \E K \in 0..MaxRetries : connect(K)
    \/ connect_attempt
    \/ connect_fail
    \/ connect_observe
    \/ connect_timeout
    \/ connect_requestHardwareID
    \/ connect_requestCurrentZoomLevel
    \/ disconnect
    \/ disconnect_stop
    \/ disconnect_close
    \/ disconnect_join
    \/ resetVars
    \/ disconnect_return
    \/ \E g \in 1..Cur : recvLoop(g)
    \/ \E g \in 1..Cur, r \in Requests, i \in 1..Len(PeerFrames) : recv_data(g, r, i)
    \/ \E g \in 1..Cur : recv_raises(g)
    \/ \E g \in 1..Cur : connectionLoop(g)
    \/ \E g \in 1..Cur : checkConnection_test(g)
    \/ \E g \in 1..Cur : checkConnection_set(g)
    \/ \E g \in 1..Cur : gimbalInfoLoop(g)
    \/ \E g \in 1..Cur : gimbalAttLoop(g)

Spec == Init /\ [][Next]_vars

(***************************************************************************)
(* Properties of the session                                               *)
(***************************************************************************)
\* the caller's thread is inside a connect call
InConnect ==
    \/ caller.pc \in {"c_while", "c_poll", "c_hw", "c_zoom"}
    \/ caller.pc \in {"d_stop", "d_close", "d_join", "d_reset", "d_clear"} /\ caller.ret = "retry"

\* the Thread object sets of the attempts of the connect call in hist
CallAttempts == (Cur - hist.attempts + 1)..Cur

\* some thread of any attempt is alive
AnyAlive(ts) == \E g \in 1..Len(ts) : \E k \in DOMAIN Started : is_alive(ts[g][k])

\* C1: connect(maxRetries = K) never starts more than K attempts, and every
\* attempt but a successful one ends with a full disconnect before the next
\* begins; it returns False only after K attempts and K disconnects, which is
\* what happens against a peer that never answers; it returns True only from
\* an attempt in which it observed the connection flag true.
C1_RetryBound ==
    /\ hist.attempts <= caller.maxRetries
    /\ hist.discs <= hist.attempts
    /\ caller.pc = "c_while" => hist.discs = hist.attempts
    /\ caller.pc \in {"c_poll", "c_hw", "c_zoom"} => hist.discs = hist.attempts - 1
    /\ hist.result = "false" =>
           hist.attempts = caller.maxRetries /\ hist.discs = caller.maxRetries
    /\ hist.result = "true" => hist.observed
    /\ ~hist.answered => hist.result # "true" /\ ~connected /\ ~hist.observed

\* connect(maxRetries = MaxRetries) has returned False against a silent peer
C1_Witness ==
    /\ caller.pc = "idle"
    /\ hist.result = "false"
    /\ ~hist.answered
    /\ caller.maxRetries = MaxRetries
    /\ hist.attempts = MaxRetries

\* C3: each probe of the supervisor sends one firmware version request, and
\* then sets the connection flag to True exactly when the stored firmware
\* record's sequence number differs from the last observed one and its
\* version is non-empty, recording that sequence number as the last observed
\* one; otherwise it sets the flag to False and leaves the last observed one.
C3_Probe ==
    [][\A g \in 1..Cur :
         /\ (threads[g].conn = "loop" /\ threads'[g].conn # "loop") =>
                IF stop
                THEN threads'[g].conn = "dead" /\ pending' = pending
                ELSE /\ threads'[g].conn = "test"
                     /\ pending' = IF sockOpen THEN pending \cup {"fw"} ELSE pending
         /\ (threads[g].conn = "test" /\ threads'[g].conn # "test") =>
                threads'[g].conn =
                    IF store.fw.seq # last_fw_seq /\ store.fw.gimbal_firmware_ver # <<>>
                    THEN "set_true" ELSE "set_false"
         /\ (threads[g].conn = "set_true" /\ threads'[g].conn # "set_true") =>
                connected' /\ last_fw_seq' = store.fw.seq /\ threads'[g].conn = "loop"
         /\ (threads[g].conn = "set_false" /\ threads'[g].conn # "set_false") =>
                ~connected' /\ last_fw_seq' = last_fw_seq /\ threads'[g].conn = "loop"
      ]_vars

\* a probe has set the flag after the record changed a second time
C3_Witness ==
    /\ connected
    /\ last_fw_seq = store.fw.seq
    /\ last_fw_seq = 2
    /\ \E g \in 1..Cur : threads[g].conn = "loop"

\* C5: the two polling threads of an attempt are started only after connect
\* has observed the connection flag true in that attempt, those of an attempt
\* that timed out are never started, and when connect returns True it has
\* issued exactly one hardware id request followed by exactly one current
\* zoom level request.
C5_Bootstrap ==
    /\ hist.result = "true" => hist.boot = <<"hw", "zoom">>
    /\ hist.result # "true" => hist.boot \in {<<>>, <<"hw">>}
    /\ hist.boot # <<>> => hist.observed
    /\ \A g \in CallAttempts :
          (g < Cur \/ ~hist.observed) =>
              threads[g].info = "new" /\ threads[g].att = "new"

\* connect has returned True with both polling threads running
C5_Witness ==
    /\ caller.pc = "idle"
    /\ hist.result = "true"
    /\ threads[Cur].info = "run"
    /\ threads[Cur].att = "run"

\* the caller's thread is inside disconnect
InDisconnect == caller.pc \in {"d_stop", "d_close", "d_join", "d_reset", "d_clear"}

\* C2: disconnect sets the stop flag, then closes the socket, then waits for
\* the threads to exit, and only then resets the connection flag and the
\* records and clears the stop flag; when it returns no thread the session
\* started is running, the connection flag is False and every record holds
\* its initial value.
C2_Disconnect ==
    /\ [][(sockOpen /\ ~sockOpen') => stop /\ stop']_vars
    /\ [][(caller.pc = "d_join" /\ caller'.pc # "d_join") => stop /\ ~sockOpen]_vars
    /\ [][(caller.pc = "d_reset" /\ caller'.pc # "d_reset") =>
              /\ stop /\ stop'
              /\ ~AnyAlive(threads)
              /\ ~connected' /\ store' = InitStore]_vars
    /\ [][(stop /\ ~stop') => caller.pc = "d_clear"]_vars
    /\ [][(InDisconnect /\ ~InDisconnect') =>
              /\ ~AnyAlive(threads')
              /\ ~connected'
              /\ store' = InitStore
              /\ ~stop']_vars

\* C4: the session is created with the connection flag False; the flag is
\* True only because a probe since the last reset found a fresh firmware
\* record; a probe that finds none and every disconnect set it to False.
C4_Flag ==
    /\ ~connected
    /\ [](connected => hist.fresh)
    /\ [][(caller.pc = "d_reset" /\ caller'.pc # "d_reset") => ~connected']_vars
    /\ [][\A g \in 1..Cur :
             (threads[g].conn = "set_false" /\ threads'[g].conn # "set_false") =>
                 ~connected']_vars

\* C6: when an attempt of a connect call has timed out, its receive and its
\* supervisor thread have exited and the records are reset before the threads
\* of the next attempt are started, so that during a connect call at most one
\* receive thread and at most one supervisor thread exist.
C6_OneAttempt ==
    /\ [](\A g \in CallAttempts : g < Cur =>
              ~is_alive(threads[g].recv) /\ ~is_alive(threads[g].conn))
    /\ [][(Len(threads') > Len(threads) /\ hist.attempts > 0) =>
              /\ hist.discs = hist.attempts
              /\ store = InitStore]_vars
    /\ [](InConnect =>
              /\ Cardinality({g \in 1..Cur : is_alive(threads[g].recv)}) <= 1
              /\ Cardinality({g \in 1..Cur : is_alive(threads[g].conn)}) <= 1)

\* C7: a thread exits only by finding the stop flag set at the top of its
\* loop, and once disconnect has set the stop flag every loop exits by
\* finding it set: the flag is not cleared, and disconnect does not return,
\* while a loop is still running.
C7_Stop ==
    /\ [][\A g \in 1..Cur : \A k \in DOMAIN Started :
             (is_alive(threads[g][k]) /\ threads'[g][k] = "dead") =>
                 stop /\ threads[g][k] \in {"loop", "run"}]_vars
    /\ [][(stop /\ ~stop') => ~AnyAlive(threads)]_vars

(***************************************************************************)
(* Properties of the decoder                                               *)
(***************************************************************************)
\* what one receive call holding the whole of good frame f leaves behind
Whole(f) == bufferCallback(InitStore, GoodFrames[f], <<>>)

\* C8: a frame whose bytes arrive split across two receive calls is decoded
\* and dispatched once, after the second call, with the result one receive
\* call holding the whole frame gives.
C8_SplitFrame ==
    scen.kind = "split" =>
        /\ Len(chunks) = 1 => log = <<>> /\ store = InitStore
        /\ chunks = <<>> =>
               /\ log = <<FrameOf(GoodFrames[scen.f])>>
               /\ log = Whole(scen.f).log
               /\ store = Whole(scen.f).store

\* C9: garbage bytes followed by a valid frame yield exactly that frame, also
\* when the garbage holds the bytes of the sync marker or the marker at a
\* half-byte offset.
C9_Garbage ==
    (scen.kind = "garbage" /\ chunks = <<>>) =>
        /\ log = <<FrameOf(GoodFrames[scen.f])>>
        /\ store = Whole(scen.f).store

\* C10: a frame with a recognized command whose payload does not fit the
\* command's layout changes nothing in the store.
C10_Malformed ==
    (scen.kind = "bad" /\ chunks = <<>>) => store = prev

\* C11: a decoded frame with a command id that is not recognized changes no
\* record of the store and not the connection flag, and the receive loop goes
\* on: the frame behind it in the same datagram and the frame of the next
\* datagram are dispatched as if the unrecognized frame had not been there.
C11_Unrecognized ==
    scen.kind = "unknown" =>
        /\ ~raised
        /\ connected = FALSE
        /\ Len(chunks) = 1 =>
               /\ log = <<FrameOf(UnknownFrames[scen.k]), FrameOf(GoodFrames[scen.f])>>
               /\ store = Whole(scen.f).store
        /\ chunks = <<>> =>
               /\ log = <<FrameOf(UnknownFrames[scen.k]), FrameOf(GoodFrames[scen.f]),
                          FrameOf(GoodFrames[1])>>
               /\ store = bufferCallback(Whole(scen.f).store, GoodFrames[1], <<>>).store

\* both datagrams of a run with an unrecognized frame have been received
C11_Witness ==
    /\ scen.kind = "unknown"
    /\ scen.k = 2
    /\ chunks = <<>>
    /\ Len(log) = 3
    /\ store # InitStore

\* C12: no exception leaves the receive loop: whatever recognized frame is
\* decoded (a data stream acknowledgement, an image mode response with an
\* empty payload), the handler returns and the frames behind it are
\* dispatched.
C12_NoEscape ==
    /\ ~raised
    /\ (scen.kind = "ack" /\ chunks = <<>>) =>
           log = <<FrameOf(AckFrames[scen.k]), FrameOf(GoodFrames[scen.f]),
                   FrameOf(GoodFrames[1])>>

\* the receive threads that are alive
AliveRecv(ts) == {g \in 1..Len(ts) : is_alive(ts[g].recv)}

\* C15: while a receive thread of the session is alive, the records are
\* written only by that receive thread: resetVars does not replace them, no
\* other step changes them, and no second receive thread writes them.
C15_SingleWriter ==
    [][AliveRecv(threads) # {} =>
          /\ ~(caller.pc = "d_reset" /\ caller'.pc # "d_reset")
          /\ store' # store =>
                 \E g \in AliveRecv(threads) :
                     /\ threads[g].recv = "recv"
                     /\ threads'[g].recv # "recv"
                     /\ AliveRecv(threads) = {g}
      ]_vars

(***************************************************************************)
(* The session with failures: a send that fails in a polling thread, and   *)
(* an exception raised by the body of the supervisor loop or of a polling  *)
(* loop.  The caller calls connect only when no thread of the session is   *)
(* running.                                                                *)
(***************************************************************************)
\* the loops whose except branch calls self.disconnect()
Guarded == {"conn", "info", "att"}

\* the polling loops
Polls == {"info", "att"}

\* the top of the loop of thread k
LoopTop(k) == IF k = "conn" THEN "loop" ELSE "run"

\* the order of the joins in disconnect
JoinedBefore(k) ==
    CASE k = "conn" -> {"recv"}
      [] k = "info" -> {"recv", "conn"}
      [] OTHER -> {"recv", "conn", "info"}

\* connect is called while no thread is running
connect_fresh(K) == ~AnyAlive(threads) /\ connect(K)

\* a pass of a polling loop whose sendto raises: sendMsg logs and returns False,
\* and so does requestGimbalInfo / requestGimbalAttitude
poll_send_fails(g, k) ==
    /\ threads[g][k] = "run"
    /\ ~stop
    /\ threads' = [threads EXCEPT ![g][k] = "failed"]
    /\ UNCHANGED <<store, connected, last_fw_seq, stop, sockOpen, pending, caller,
                   hist, decVars, rotVars>>

\* the loop does not look at what the request returned: sleep(t), next pass
poll_continue(g, k) ==
    /\ threads[g][k] = "failed"
    /\ threads' = [threads EXCEPT ![g][k] = "run"]
    /\ UNCHANGED <<store, connected, last_fw_seq, stop, sockOpen, pending, caller,
                   hist, decVars, rotVars>>

\* the body of the loop of a thread the handles refer to raises: the except
\* branch logs and calls self.disconnect()
loop_raises(g, k) ==
    /\ g = Cur
    /\ threads[g][k] = LoopTop(k)
    /\ ~stop
    /\ threads' = [threads EXCEPT ![g][k] = "h_stop"]
    /\ UNCHANGED <<store, connected, last_fw_seq, stop, sockOpen, pending, caller,
                   hist, decVars, rotVars>>

\* disconnect inside the thread: self._stop = True
handler_stop(g, k) ==
    /\ threads[g][k] = "h_stop"
    /\ stop' = TRUE
    /\ threads' = [threads EXCEPT ![g][k] = "h_close"]
    /\ UNCHANGED <<store, connected, last_fw_seq, sockOpen, pending, caller, hist,
                   decVars, rotVars>>

\* disconnect inside the thread: self._socket.close()
handler_close(g, k) ==
    /\ threads[g][k] = "h_close"
    /\ sockOpen' = FALSE
    /\ pending' = {}
    /\ threads' = [threads EXCEPT ![g][k] = "h_join"]
    /\ UNCHANGED <<store, connected, last_fw_seq, stop, caller, hist, decVars, rotVars>>

\* disconnect inside the thread: the joins of the threads before its own
\* return, then is_alive() of its own thread is True and join() raises
\* RuntimeError (cannot join current thread) inside the except branch: the
\* exception leaves the thread, resetVars and self._stop = False are not reached
handler_join(g, k) ==
    /\ threads[g][k] = "h_join"
    /\ \A j \in JoinedBefore(k) : ~is_alive(threads[Cur][j])
    /\ threads' = [threads EXCEPT ![g][k] = "escaped"]
    /\ UNCHANGED <<store, connected, last_fw_seq, stop, sockOpen, pending, caller,
                   hist, decVars, rotVars>>

FaultNext ==
    \/ \E K \in 0..MaxRetries : connect_fresh(K)
    \/ connect_attempt
    \/ connect_fail
    \/ connect_observe
    \/ connect_timeout
    \/ connect_requestHardwareID
    \/ connect_requestCurrentZoomLevel
    \/ disconnect
    \/ disconnect_stop
    \/ disconnect_close
    \/ disconnect_join
    \/ resetVars
    \/ disconnect_return
    \/ \E g \in 1..Cur : recvLoop(g)
    \/ \E g \in 1..Cur, r \in Requests, i \in 1..Len(PeerFrames) : recv_data(g, r, i)
    \/ \E g \in 1..Cur : recv_raises(g)
    \/ \E g \in 1..Cur : connectionLoop(g)
    \/ \E g \in 1..Cur : checkConnection_test(g)
    \/ \E g \in 1..Cur : checkConnection_set(g)
    \/ \E g \in 1..Cur : gimbalInfoLoop(g)
    \/ \E g \in 1..Cur : gimbalAttLoop(g)
    \/ \E g \in 1..Cur, k \in Polls : poll_send_fails(g, k)
    \/ \E g \in 1..Cur, k \in Polls : poll_continue(g, k)
    \/ \E g \in 1..Cur, k \in Guarded : loop_raises(g, k)
    \/ \E g \in 1..Cur, k \in Guarded : handler_stop(g, k)
    \/ \E g \in 1..Cur, k \in Guarded : handler_close(g, k)
    \/ \E g \in 1..Cur, k \in Guarded : handler_join(g, k)

SpecFault == Init /\ [][FaultNext]_vars

\* the thread is in the except branch of its loop
InHandler(pc) == pc \in {"h_stop", "h_close", "h_join"}

\* C13: when the body of the supervisor loop or of a polling loop raises, no
\* exception leaves the thread, and when the except branch is done the thread
\* is back in its loop or has left it, the stop flag is cleared, the
\* connection flag is False and the records hold their initial values.
C13_Handler ==
    /\ [](\A g \in 1..Cur : \A k \in Guarded : threads[g][k] # "escaped")
    /\ [][\A g \in 1..Cur : \A k \in Guarded :
             (InHandler(threads[g][k]) /\ ~InHandler(threads'[g][k])) =>
                 /\ threads'[g][k] \in {LoopTop(k), "dead"}
                 /\ ~stop'
                 /\ ~connected'
                 /\ store' = InitStore]_vars

\* C14: a polling thread whose request could not be sent calls disconnect; it
\* does not go on to its next pass.
C14_SendFailure ==
    [][\A g \in 1..Cur : \A k \in Polls :
          (threads[g][k] = "failed" /\ threads'[g][k] # "failed") =>
              threads'[g][k] = "h_stop"]_vars

(***************************************************************************)
(* Pointing: requestSetAngles and setGimbalRotation, called by the user's  *)
(* thread while the receive thread stores attitude frames.  Angles are     *)
(* kept in tenths of a degree, the unit of the wire: parseAttitudeMsg      *)
(* divides by 10. and the targets are whole degrees, so every error is a   *)
(* whole number of tenths, the comparison with err_thresh is exact, and    *)
(* int(gain * error) is the quotient of gain * tenths by 10 rounded        *)
(* towards zero.  The limit tables of cameras.py are not among the source  *)
(* files: each model is given one of LimitTables.                          *)
(***************************************************************************)
\* most attitude frames the receive thread stores in one run
MaxFrames == 2

\* largest sequence number of an attitude frame
MaxAttSeq == 2

\* where the count of requests handed to the encoder stops growing
MaxSent == 1

\* kp, the default gain of setGimbalRotation
KP == 4

\* err_thresh, the default tolerance of setGimbalRotation, in tenths of a degree
ERR_THRESH == 10

\* the largest speed setpoint
MAX_SPEED == 100

\* the attitude a frame carries: yaw and pitch in tenths of a degree
SampleYaw == {210, 187, -300}
SamplePitch == {0, -290}

\* the targets setGimbalRotation is called with, in degrees
RotYaw == {20, 46}
RotPitch == {0, -91}

\* the angles requestSetAngles is called with, in degrees
SetYaw == {0, 300}
SetPitch == {50, -130}

\* the camera ids a hardware id response may carry: A8 mini, ZR10, ZT6, ZR30
CamIds == {<<55, 51>>, <<54, 66>>, <<56, 50>>, <<55, 56>>}

Abs(a) == IF a < 0 THEN -a ELSE a

Max(a, b) == IF a > b THEN a ELSE b

\* int(a / b) of Python for b > 0: the quotient rounded towards zero
TruncDiv(a, b) == IF a >= 0 THEN a \div b ELSE -((-a) \div b)

\* the payload of an attitude frame: yaw, pitch, roll and three speeds as
\* 16-bit two's complement values, low byte first
AttFrame(yaw, pitch) ==
    HexOf(Swap16(yaw % 65536) \o Swap16(pitch % 65536) \o <<0, 0, 0, 0, 0, 0, 0, 0>>)

\* what gimbalSpeedMsg and setGimbalAttitude are called with
SpeedCmd(y, p) == [kind |-> "speed", yaw |-> y, pitch |-> p]
AngleCmd(y, p) == [kind |-> "angles", yaw |-> y, pitch |-> p]

\* one more request handed to the encoder
Count(n) == Min(n + 1, MaxSent)

\* ---- the receive thread in parseAttitudeMsg -------------------------------
\* self._att_msg.seq = seq
att_seq(seq, yaw, pitch) ==
    /\ writer.pc = "idle"
    /\ writer.n < MaxFrames
    /\ writer' = [pc |-> "w_yaw", msg |-> AttFrame(yaw, pitch), seq |-> seq, n |-> writer.n + 1]
    /\ store' = [store EXCEPT !.att.seq = seq]
    /\ UNCHANGED <<connVars, decVars, last_att_seq, rot, out_msg, sent, lim>>

\* self._att_msg.yaw = toInt(msg[2:4] + msg[0:2]) / 10.
att_yaw ==
    /\ writer.pc = "w_yaw"
    /\ writer' = [writer EXCEPT !.pc = "w_rest"]
    /\ store' = [store EXCEPT !.att.val[1] = toInt(AttField(writer.msg, 0))]
    /\ UNCHANGED <<connVars, decVars, last_att_seq, rot, out_msg, sent, lim>>

\* pitch, roll and the three speeds
att_rest ==
    /\ writer.pc = "w_rest"
    /\ writer' = [writer EXCEPT !.pc = "idle"]
    /\ store' = parseAttitudeMsg(store, writer.msg, writer.seq)
    /\ UNCHANGED <<connVars, decVars, last_att_seq, rot, out_msg, sent, lim>>

\* ---- requestSetAngles -----------------------------------------------------
\* the two ifs of one axis
ClampAxis(v, hi, lo) ==
    LET v1 == IF v > hi THEN hi ELSE v
    IN  IF v1 < lo THEN lo ELSE v1

\* the yaw requestSetAngles hands on for a model it has a branch for
ClampYaw(model, yaw_deg) ==
    ClampAxis(yaw_deg, lim[model].MAX_YAW_DEG, lim[model].MIN_YAW_DEG)

\* the pitch: the ZT6 branch assigns cameras.A8MINI.MIN_PITCH_DEG below the minimum
ClampPitch(model, pitch_deg) ==
    LET p1 == IF pitch_deg > lim[model].MAX_PITCH_DEG THEN lim[model].MAX_PITCH_DEG
              ELSE pitch_deg
    IN  IF p1 < lim[model].MIN_PITCH_DEG
        THEN IF model = "ZT6" THEN lim["A8 mini"].MIN_PITCH_DEG
             ELSE lim[model].MIN_PITCH_DEG
        ELSE p1

requestSetAngles(yaw_deg, pitch_deg) ==
    LET model == store.hw.cam_type_str
        called == [IdleRot EXCEPT !.op = "angles", !.yaw = yaw_deg, !.pitch = pitch_deg]
    IN  /\ rot.pc = "idle"
        /\ IF model = ""
           THEN /\ rot' = [called EXCEPT !.ret = "no_model"]
                /\ UNCHANGED <<out_msg, sent>>
           ELSE IF model \in Models
           THEN /\ rot' = [called EXCEPT !.ret = "sent"]
                /\ out_msg' = AngleCmd(10 * ClampYaw(model, yaw_deg),
                                       10 * ClampPitch(model, pitch_deg))
                /\ sent' = Count(sent)
           ELSE /\ rot' = [called EXCEPT !.ret = "unsupported"]
                /\ UNCHANGED <<out_msg, sent>>
        /\ UNCHANGED <<store, connVars, decVars, last_att_seq, writer, lim>>

\* ---- setGimbalRotation ----------------------------------------------------
\* the pcs of the while loop
LoopPcs == {"r_loop", "r_stale", "r_record", "r_yaw", "r_pitch", "r_act"}

\* the two range tests before the loop
Controllable(yaw, pitch) == ~(pitch > 25 \/ pitch < -90) /\ ~(yaw > 45 \/ yaw < -45)

setGimbalRotation(yaw, pitch) ==
    LET called == [IdleRot EXCEPT !.op = "rotate", !.yaw = yaw, !.pitch = pitch]
    IN  /\ rot.pc = "idle"
        /\ rot' = IF Controllable(yaw, pitch) THEN [called EXCEPT !.pc = "r_loop"]
                  ELSE [called EXCEPT !.ret = "rejected"]
        /\ UNCHANGED <<store, connVars, decVars, last_att_seq, out_msg, sent, writer, lim>>

\* requestGimbalAttitude, then the test self._att_msg.seq == self._last_att_seq
rot_compare ==
    /\ rot.pc = "r_loop"
    /\ rot' = [rot EXCEPT !.pc = IF store.att.seq = last_att_seq THEN "r_stale" ELSE "r_record",
                          !.fresh = store.att.seq # last_att_seq]
    /\ UNCHANGED <<store, connVars, decVars, last_att_seq, out_msg, sent, writer, lim>>

\* a stale branch that sends nothing
rot_stale_silent ==
    /\ rot.pc = "r_stale"
    /\ rot' = [rot EXCEPT !.pc = "r_loop"]
    /\ UNCHANGED <<store, connVars, decVars, last_att_seq, out_msg, sent, writer, lim>>

\* a stale branch that gives up
rot_stale_gives_up ==
    /\ rot.pc = "r_stale"
    /\ rot' = [rot EXCEPT !.pc = "idle", !.ret = "timeout"]
    /\ out_msg' = SpeedCmd(0, 0)
    /\ sent' = Count(sent)
    /\ UNCHANGED <<store, connVars, decVars, last_att_seq, writer, lim>>

\* the stale branch: requestGimbalSpeed(0, 0), continue
rot_stale ==
    /\ rot.pc = "r_stale"
    /\ rot' = [rot EXCEPT !.pc = "r_loop"]
    /\ out_msg' = SpeedCmd(0, 0)
    /\ sent' = Count(sent)
    /\ UNCHANGED <<store, connVars, decVars, last_att_seq, writer, lim>>

\* the payload of the frame the record's sequence number was taken from: the
\* frame the receive thread stored last or is storing, or the zero record
RecordFrame == IF writer.n = 0 THEN AttFrame(0, 0) ELSE writer.msg

\* self._last_att_seq = self._att_msg.seq
rot_record ==
    /\ rot.pc = "r_record"
    /\ last_att_seq' = store.att.seq
    /\ rot' = [rot EXCEPT !.pc = "r_yaw", !.acc = RecordFrame]
    /\ UNCHANGED <<store, connVars, decVars, out_msg, sent, writer, lim>>

\* yaw_err = -yaw + self._att_msg.yaw
rot_yaw ==
    /\ rot.pc = "r_yaw"
    /\ rot' = [rot EXCEPT !.pc = "r_pitch", !.yaw_err = -(10 * rot.yaw) + store.att.val[1]]
    /\ UNCHANGED <<store, connVars, decVars, last_att_seq, out_msg, sent, writer, lim>>

\* pitch_err = pitch - self._att_msg.pitch
rot_pitch ==
    /\ rot.pc = "r_pitch"
    /\ rot' = [rot EXCEPT !.pc = "r_act", !.pitch_err = 10 * rot.pitch - store.att.val[2]]
    /\ UNCHANGED <<store, connVars, decVars, last_att_seq, out_msg, sent, writer, lim>>

\* a goal test that is content with one axis
Reached_either(yaw_err, pitch_err) == Abs(yaw_err) <= ERR_THRESH \/ Abs(pitch_err) <= ERR_THRESH

\* abs(yaw_err) <= th and abs(pitch_err) <= th
Reached(yaw_err, pitch_err) == Abs(yaw_err) <= ERR_THRESH /\ Abs(pitch_err) <= ERR_THRESH

\* a setpoint that rounds down instead of towards zero
SpeedSetpoint_floor(err) == Max(Min(MAX_SPEED, (KP * err) \div 10), -MAX_SPEED)

\* max(min(100, int(gain * err)), -100)
SpeedSetpoint(err) == Max(Min(MAX_SPEED, TruncDiv(KP * err, 10)), -MAX_SPEED)

\* the goal test, then either the stop command and break, or the speed
\* command and the sleep
rot_act ==
    /\ rot.pc = "r_act"
    /\ IF Reached(rot.yaw_err, rot.pitch_err)
       THEN /\ out_msg' = SpeedCmd(0, 0)
            /\ rot' = [rot EXCEPT !.pc = "idle", !.ret = "reached"]
       ELSE /\ out_msg' = SpeedCmd(SpeedSetpoint(rot.yaw_err), SpeedSetpoint(rot.pitch_err))
            /\ rot' = [rot EXCEPT !.pc = "r_loop"]
    /\ sent' = Count(sent)
    /\ UNCHANGED <<store, connVars, decVars, last_att_seq, writer, lim>>

\* the SDK after construction and, for a camera id, after its hardware id
\* response was stored; every model with one of the limit tables
RotInit ==
    /\ ConnIdle
    /\ RotIdle
    /\ scen = [kind |-> "pointing", f |-> 0, k |-> 0, g |-> <<>>]
    /\ chunks = <<>>
    /\ log = <<>>
    /\ prev = InitStore
    /\ raised = FALSE
    /\ cuts = <<>>
    /\ work = IdleWork
    /\ api = NoCall
    /\ lim \in [Models -> LimitTables]
    /\ \E known \in BOOLEAN : \E id \in CamIds :
          store = IF known
                  THEN parseHardwareIDMsg(InitStore,
                                          HexOf(id \o <<48, 49, 50, 51, 52, 53, 54, 55>>), 1)
                  ELSE InitStore

RotNext ==
    \/ \E seq \in 1..MaxAttSeq : \E yaw \in SampleYaw : \E pitch \in SamplePitch :
          att_seq(seq, yaw, pitch)
    \/ att_yaw
    \/ att_rest
    \/ \E yaw \in SetYaw : \E pitch \in SetPitch : requestSetAngles(yaw, pitch)
    \/ \E yaw \in RotYaw : \E pitch \in RotPitch : setGimbalRotation(yaw, pitch)
    \/ rot_compare
    \/ rot_stale
    \/ rot_record
    \/ rot_yaw
    \/ rot_pitch
    \/ rot_act

SpecRot == RotInit /\ [][RotNext]_vars

(***************************************************************************)
(* Properties of the pointing operations                                   *)
(***************************************************************************)
\* a step of the thread that called setGimbalRotation
RotStep == rot' # rot

\* C16: an iteration of the rotation controller that finds the attitude record's
\* sequence number equal to the one it recorded at the last accepted sample
\* takes the stale branch: it sends zero velocity on both axes, computes no
\* error, leaves the recorded sequence number as it is and polls again
C16_Stale ==
    [][/\ (RotStep /\ rot.pc = "r_loop" /\ store.att.seq = last_att_seq) =>
              /\ rot'.pc = "r_stale"
              /\ ~rot'.fresh
              /\ last_att_seq' = last_att_seq
       /\ (RotStep /\ rot.pc = "r_stale") =>
              /\ out_msg' = SpeedCmd(0, 0)
              /\ rot'.yaw_err = rot.yaw_err
              /\ rot'.pitch_err = rot.pitch_err
              /\ last_att_seq' = last_att_seq
              /\ rot'.pc = "r_loop"]_vars

\* after an accepted sample and a speed command, a stale iteration has sent
\* zero velocity and the controller is back at the top of the loop
C16_Witness ==
    /\ rot.pc = "r_loop"
    /\ ~rot.fresh
    /\ last_att_seq = store.att.seq
    /\ last_att_seq # -1
    /\ ~Reached(rot.yaw_err, rot.pitch_err)
    /\ out_msg = SpeedCmd(0, 0)

\* C17: the rotation controller leaves its loop only in an iteration that
\* accepted a fresh attitude sample and computed a yaw error and a pitch error
\* both within the tolerance, and the last command it sends before it returns
\* is zero velocity on both axes
C17_Return ==
    [][(rot.pc \in LoopPcs /\ rot'.pc = "idle") =>
          /\ rot.pc = "r_act"
          /\ rot.fresh
          /\ Abs(rot.yaw_err) <= ERR_THRESH
          /\ Abs(rot.pitch_err) <= ERR_THRESH
          /\ out_msg' = SpeedCmd(0, 0)
          /\ rot'.ret = "reached"]_vars

\* the controller has returned with a yaw error of one degree
C17_Witness ==
    /\ rot.pc = "idle"
    /\ rot.op = "rotate"
    /\ rot.ret = "reached"
    /\ rot.yaw_err = ERR_THRESH
    /\ out_msg = SpeedCmd(0, 0)

\* sp is int(gain * err) clamped to -100..100, for err in tenths of a degree
IsSetpoint(sp, err) ==
    LET g == KP * err
    IN  \/ sp = MAX_SPEED /\ g >= 10 * MAX_SPEED
        \/ sp = -MAX_SPEED /\ g <= -10 * MAX_SPEED
        \/ /\ -MAX_SPEED < sp
           /\ sp < MAX_SPEED
           /\ IF g >= 0 THEN sp >= 0 /\ 10 * sp <= g /\ g < 10 * sp + 10
              ELSE sp <= 0 /\ 10 * sp - 10 < g /\ g <= 10 * sp

\* C18 as stated: every velocity command the controller sends in an iteration
\* that computed the errors has each component equal to the integer truncation
\* of gain * error of that axis, clamped to -100..100
C18_EveryCommand ==
    [][(RotStep /\ rot.pc = "r_act") =>
          /\ IsSetpoint(out_msg'.yaw, rot.yaw_err)
          /\ IsSetpoint(out_msg'.pitch, rot.pitch_err)]_vars

\* C18: every velocity command the rotation controller sends has both
\* components in -100..100; the command of an iteration whose errors are not
\* both within the tolerance has each component equal to the integer
\* truncation of gain * error of that axis clamped to -100..100, and the
\* command of a stale iteration and of the last iteration is zero on both axes
C18_Velocity ==
    [][(RotStep /\ rot.pc \in {"r_stale", "r_act"}) =>
          /\ out_msg'.kind = "speed"
          /\ out_msg'.yaw \in -MAX_SPEED..MAX_SPEED
          /\ out_msg'.pitch \in -MAX_SPEED..MAX_SPEED
          /\ IF rot.pc = "r_act" /\ ~(Abs(rot.yaw_err) <= ERR_THRESH
                                      /\ Abs(rot.pitch_err) <= ERR_THRESH)
             THEN /\ IsSetpoint(out_msg'.yaw, rot.yaw_err)
                  /\ IsSetpoint(out_msg'.pitch, rot.pitch_err)
             ELSE out_msg' = SpeedCmd(0, 0)]_vars

\* a command was sent for a yaw error of -1.3 degrees, truncated to -5, and a
\* pitch error of 29 degrees, clamped to 100
C18_Witness ==
    /\ rot.pc = "r_loop"
    /\ rot.yaw_err = -13
    /\ rot.pitch_err = 290
    /\ out_msg = SpeedCmd(-5, 100)

\* the nearest value to v in lo..hi
Nearest(v, lo, hi) == IF v < lo THEN lo ELSE IF v > hi THEN hi ELSE v

\* C19: for a camera model requestSetAngles has a branch for, a yaw or pitch
\* outside that model's limits reaches the encoder as the nearest limit of that
\* same model
C19_Clamp ==
    (rot.op = "angles" /\ rot.ret = "sent") =>
        LET t == lim[store.hw.cam_type_str]
        IN  /\ out_msg.kind = "angles"
            /\ out_msg.yaw = 10 * Nearest(rot.yaw, t.MIN_YAW_DEG, t.MAX_YAW_DEG)
            /\ out_msg.pitch = 10 * Nearest(rot.pitch, t.MIN_PITCH_DEG, t.MAX_PITCH_DEG)

\* C20: a pointing operation given a target outside the range is not rejected
\* for it: requestSetAngles with a model it has a branch for, and
\* setGimbalRotation, go on and issue a command
C20_NeverRejected ==
    /\ (rot.op = "rotate" /\ ~Controllable(rot.yaw, rot.pitch)) =>
           (rot.pc \in LoopPcs \/ rot.ret = "reached")
    /\ (rot.op = "angles" /\ store.hw.cam_type_str \in Models) =>
           (rot.ret = "sent" /\ out_msg.kind = "angles")

\* C21: while no camera model is established (the model tag is empty), neither
\* requestSetAngles nor the rotation controller hands an angle or a velocity
\* command to the encoder
C21_Refused ==
    [][store.hw.cam_type_str = "" => (out_msg' = out_msg /\ sent' = sent)]_vars

(***************************************************************************)
(* Parser runs: the receive loop is fed attitude, hardware id and image    *)
(* mode responses built from bounded sets of payloads, and the user's      *)
(* thread calls requestGimbalCameraImageMode and getGimbalCameraImageMode. *)
(***************************************************************************)
\* the sequence fields of the attitude frames
ParseSeqs == {0, 7, 65535}

\* the values an attitude field carries, in tenths of a degree
ParseAngles == {155, -100, 32767, -32768}

\* the image modes a response carries: the nine modes of the table, and two
\* the table does not hold
ParseModes == 0..9 \cup {255}

\* camera ids that are not in CAM_DICT: "99", "6b"
UnknownIds == {<<57, 57>>, <<54, 98>>}

\* what follows the camera id in a hardware id payload: nothing, eight
\* characters, ten characters
IdTails == {<<>>, <<48, 49, 50, 51, 52, 53, 54, 55>>, <<48, 49, 50, 51, 52, 53, 54, 55, 56, 57>>}

\* an attitude payload: yaw, pitch, roll, then the speeds 1, -2 and -32768
AttData(yaw, pitch, roll) ==
    Swap16(yaw % 65536) \o Swap16(pitch % 65536) \o Swap16(roll % 65536)
        \o <<1, 0, 254, 255, 0, 128>>

\* first is the camera id of a hardware id response stored before the run's
\* frame, or empty
ParseScenarios ==
    {[kind |-> "att", seq |-> q, data |-> AttData(y, pt, r), first |-> <<>>] :
        q \in ParseSeqs, y \in ParseAngles, pt \in ParseAngles, r \in {0, -1}}
    \cup {[kind |-> "hw", seq |-> 258, data |-> id \o t, first |-> f] :
            id \in DOMAIN CAM_DICT \cup UnknownIds, t \in IdTails, f \in {<<>>, <<54, 66>>}}
    \cup {[kind |-> "img", seq |-> 6, data |-> <<md>>, first |-> f] :
            md \in ParseModes, f \in DOMAIN CAM_DICT \cup {<<>>}}

\* the response frame of a scenario
ParseFrame(sc) ==
    BytesOf(EncodeFrame(2, sc.seq,
                        CASE sc.kind = "att" -> ACQUIRE_GIMBAL_ATT
                          [] sc.kind = "hw" -> ACQUIRE_HW_ID
                          [] OTHER -> REQUEST_GIMBAL_CAMERA_IMAGE_MODE,
                        sc.data))

\* the datagrams of a scenario: the earlier hardware id response if there is
\* one, then the scenario's frame, a hardware id frame with an attitude frame
\* behind it
ParseChunks(sc) ==
    (IF sc.first = <<>> THEN <<>>
     ELSE <<BytesOf(EncodeFrame(2, 1, ACQUIRE_HW_ID, sc.first \o <<48, 49>>))>>)
    \o (IF sc.kind = "hw" THEN <<ParseFrame(sc) \o GoodFrames[1]>> ELSE <<ParseFrame(sc)>>)

\* what requestGimbalCameraImageModeMsg builds
ImageModeCmd == [kind |-> "image_mode", yaw |-> 0, pitch |-> 0]

\* a test that knows the ZT6 only
ImageModeSupported_zt6(model) == model = "ZT6"

\* the models requestGimbalCameraImageMode sends for
ImageModeSupported(model) == model = "ZT6" \/ model = "ZT30"

\* requestGimbalCameraImageMode: the result of sendMsg, or False without sending
requestGimbalCameraImageMode ==
    /\ IF ImageModeSupported(store.hw.cam_type_str)
       THEN /\ out_msg' = ImageModeCmd
            /\ sent' = Count(sent)
            /\ api' = [op |-> "request", ok |-> sockOpen, mode |-> -1]
       ELSE /\ api' = [op |-> "request", ok |-> FALSE, mode |-> -1]
            /\ UNCHANGED <<out_msg, sent>>
    /\ UNCHANGED <<store, connVars, chunks, log, prev, raised, scen, cuts, work, last_att_seq, rot,
                   writer, lim>>

\* getGimbalCameraImageMode: vdisp_mode of the image mode record
getGimbalCameraImageMode ==
    /\ api' = [op |-> "get", ok |-> TRUE, mode |-> store.img.vdisp_mode]
    /\ UNCHANGED <<store, connVars, chunks, log, prev, raised, scen, cuts, work, rotVars>>

ParseInit ==
    /\ ConnIdle
    /\ RotIdle
    /\ lim = SameLimits
    /\ store = InitStore
    /\ scen \in ParseScenarios
    /\ chunks = ParseChunks(scen)
    /\ log = <<>>
    /\ prev = InitStore
    /\ raised = FALSE
    /\ cuts = <<>>
    /\ work = IdleWork
    /\ api = NoCall

ParseNext ==
    \/ Feed
    \/ requestGimbalCameraImageMode
    \/ getGimbalCameraImageMode

SpecParse == ParseInit /\ [][ParseNext]_vars

(***************************************************************************)
(* Properties of the parsers                                               *)
(***************************************************************************)
\* the signed 16-bit value of the field at index i (0..5) of an attitude
\* payload: low byte first
Field16(data, i) ==
    LET u == data[2 * i + 1] + 256 * data[2 * i + 2]
    IN  IF u >= 32768 THEN u - 65536 ELSE u

\* C22: after a well-formed attitude frame is dispatched, yaw, pitch, roll and
\* the three speeds of the attitude record are the signed 16-bit values of
\* their two payload bytes, low byte first, in tenths of a degree, and the
\* record's sequence number is the frame's
C22_Attitude ==
    (scen.kind = "att" /\ chunks = <<>>) =>
        /\ ~raised
        /\ store.att.seq = scen.seq
        /\ store.att.val = [i \in 1..6 |-> Field16(scen.data, i - 1)]

\* a frame with sequence number 65535, yaw 15.5 and pitch -3276.8 was stored
C22_Witness ==
    /\ scen.kind = "att"
    /\ chunks = <<>>
    /\ store.att.seq = 65535
    /\ store.att.val[1] = 155
    /\ store.att.val[2] = -32768
    /\ store.att.val[3] = -1

\* the model tag before the scenario's hardware id frame
TagBefore(sc) == IF sc.first = <<>> THEN "" ELSE CAM_DICT[sc.first]

\* C23: after a hardware id frame is dispatched the stored id is the first ten
\* characters of the payload and the model tag is the dictionary entry of the
\* first two; when these are not in the dictionary the tag keeps the value it
\* had, and the frame behind is dispatched
C23_HardwareId ==
    (scen.kind = "hw" /\ chunks = <<>>) =>
        LET cam_id == SubSeq(scen.data, 1, 2)
        IN  /\ ~raised
            /\ store.hw.seq = scen.seq
            /\ store.hw.id = SubSeq(scen.data, 1, Min(10, Len(scen.data)))
            /\ store.hw.cam_type_str = IF cam_id \in DOMAIN CAM_DICT THEN CAM_DICT[cam_id]
                                       ELSE TagBefore(scen)
            /\ log[Len(log)] = FrameOf(GoodFrames[1])
            /\ store.att.seq = 7

\* a twelve character payload with an unknown camera id was stored after a
\* ZR10 had been established
C23_Witness ==
    /\ scen.kind = "hw"
    /\ chunks = <<>>
    /\ scen.first = <<54, 66>>
    /\ SubSeq(scen.data, 1, 2) = <<57, 57>>
    /\ Len(scen.data) = 12
    /\ Len(store.hw.id) = 10
    /\ store.hw.cam_type_str = "ZR10"

\* C24: requestGimbalCameraImageMode hands an image mode request to the
\* encoder and returns the result of the send exactly when the model tag is
\* ZT6 or ZT30, and returns False without sending otherwise; after the
\* response was dispatched getGimbalCameraImageMode returns the mode the
\* response carries
C24_ImageMode ==
    [][/\ (api' # api /\ api'.op = "request") =>
              IF store.hw.cam_type_str \in {"ZT6", "ZT30"}
              THEN out_msg' = ImageModeCmd /\ sent' = Count(sent) /\ api'.ok = sockOpen
              ELSE out_msg' = out_msg /\ sent' = sent /\ ~api'.ok
       /\ (api' # api /\ api'.op = "get" /\ scen.kind = "img" /\ chunks = <<>>) =>
              (~raised /\ api'.mode = scen.data[1])]_vars

\* a ZT30 was established, the request was sent, the response with mode 9 was
\* dispatched and read
C24_Witness ==
    /\ scen.kind = "img"
    /\ store.hw.cam_type_str = "ZT30"
    /\ out_msg = ImageModeCmd
    /\ chunks = <<>>
    /\ api = [op |-> "get", ok |-> TRUE, mode |-> 9]

(***************************************************************************)
(* Properties of the session: the transport, the threads, the probes       *)
(***************************************************************************)
\* the threads of kind k that are alive
AliveOf(k) == {g \in 1..Cur : is_alive(threads[g][k])}

\* C25: when a connect attempt starts its threads, the second and later
\* attempts of a call and the attempts of a connect after a disconnect
\* included, the socket is open
C25_Transport ==
    [][Len(threads') > Len(threads) => sockOpen]_vars

\* C26: whatever connect and disconnect calls are made, at most one receive,
\* one supervisor, one attitude polling and one info polling thread is alive
\* at any time, and when a disconnect returns none is
C26_OneOfEach ==
    /\ [](\A k \in DOMAIN Started : Cardinality(AliveOf(k)) <= 1)
    /\ [][(InDisconnect /\ ~InDisconnect') => ~AnyAlive(threads')]_vars

(***************************************************************************)
(* Properties of the rotation controller under concurrent attitude frames  *)
(***************************************************************************)
\* C27: the yaw and the pitch the rotation controller computes its errors from
\* are those of the attitude frame whose sequence number it recorded in that
\* iteration, also while the receive thread is storing a frame
C27_NoTornRead ==
    [][/\ (RotStep /\ rot.pc = "r_yaw") =>
              rot'.yaw_err = -(10 * rot.yaw) + toInt(AttField(rot.acc, 0))
       /\ (RotStep /\ rot.pc = "r_pitch") =>
              rot'.pitch_err = 10 * rot.pitch - toInt(AttField(rot.acc, 1))]_vars

\* the steps of the thread inside setGimbalRotation's loop
RotCtl == rot_compare \/ rot_stale \/ rot_record \/ rot_yaw \/ rot_pitch \/ rot_act

\* a session in which a ZT6 was established
RotLiveInit ==
    /\ ConnIdle
    /\ RotIdle
    /\ lim = SameLimits
    /\ store = parseHardwareIDMsg(InitStore, HexOf(<<56, 50, 48, 49, 50, 51, 52, 53, 54, 55>>), 1)
    /\ scen = [kind |-> "pointing", f |-> 0, k |-> 0, g |-> <<>>]
    /\ chunks = <<>>
    /\ log = <<>>
    /\ prev = InitStore
    /\ raised = FALSE
    /\ cuts = <<>>
    /\ work = IdleWork
    /\ api = NoCall

\* the thread that called setGimbalRotation keeps being scheduled
SpecRotLive == RotLiveInit /\ [][RotNext]_vars /\ WF_vars(RotCtl)

\* the controller is in the part of the loop a stale iteration runs through
StaleCycle == rot.pc \in {"r_loop", "r_stale"}

\* the attitude record's sequence number is the recorded one
SeqUnchanged == store.att.seq = last_att_seq

\* C28: the rotation controller has no iteration cap and no deadline: from an
\* iteration on after which the attitude record's sequence number stays the
\* recorded one, the controller never returns, takes the stale branch again
\* and again and sends zero velocity in each of these iterations
C28_NoDeadline ==
    /\ [][(RotStep /\ (rot.pc = "r_stale" \/ (rot.pc = "r_loop" /\ SeqUnchanged))) =>
              /\ rot'.pc \in {"r_loop", "r_stale"}
              /\ rot.pc = "r_stale" => out_msg' = SpeedCmd(0, 0)]_vars
    /\ []((StaleCycle /\ []SeqUnchanged) =>
              /\ []StaleCycle
              /\ []<>(rot.pc = "r_stale")
              /\ <>[](out_msg = SpeedCmd(0, 0)))

\* no further frame will arrive, and the controller is in a stale iteration
\* after one that sent zero velocity
C28_Witness ==
    /\ rot.pc = "r_stale"
    /\ ~rot.fresh
    /\ writer.n = MaxFrames
    /\ writer.pc = "idle"
    /\ SeqUnchanged
    /\ sent = MaxSent
    /\ out_msg = SpeedCmd(0, 0)

(***************************************************************************)
(* Properties of the supervisor's probes                                   *)
(***************************************************************************)
\* the supervisor thread of attempt g completes a probe
ProbeEnds(g) == threads[g].conn \in {"set_true", "set_false"} /\ threads'[g].conn = "loop"

\* C29: when a probe leaves the connection flag true and the probe before it
\* had left it true, the firmware record's sequence number the later probe
\* found differs from the one the earlier probe recorded; a probe that finds
\* the sequence number a probe has accepted sets the flag to false
C29_Changed ==
    /\ [][\A g \in 1..Cur :
             (ProbeEnds(g) /\ threads[g].conn = "set_true" /\ connected) =>
                 hist.seen[g] # last_fw_seq]_vars
    /\ [][\A g \in 1..Cur :
             (ProbeEnds(g) /\ hist.seen[g] = last_fw_seq) => ~connected']_vars

MaxBurst == 3

\* a second attitude payload: yaw -1.0, pitch 2.0, roll 0.3, speeds 0
AttPayload2 == <<246, 255, 20, 0, 3, 0, 0, 0, 0, 0, 0, 0>>

\* the well-formed frames a datagram is made of: the four of GoodFrames, a
\* later attitude frame, an image mode response, a frame without payload, the
\* acknowledgement of a data stream request
BurstFrames ==
    GoodFrames \o
    <<BytesOf(EncodeFrame(2, 8, ACQUIRE_GIMBAL_ATT, AttPayload2)),
      AckFrames[3],
      UnknownFrames[1],
      AckFrames[1]>>

\* the frame bs with the last byte of its checksum changed
Corrupt(bs) == [bs EXCEPT ![Len(bs)] = (bs[Len(bs)] + 1) % 256]

\* the bytes whose hex string is that of bs moved by one character: a 0
\* character, the characters of bs, a 0 character
Shifted(bs) == BytesOf(<<0>> \o HexOf(bs) \o <<0>>)

\* datagrams of at least ten bytes without a frame header at any byte; the
\* third holds the header's characters across two bytes
NoiseChunks ==
    <<[i \in 1..12 |-> 85],
      [i \in 1..12 |-> IF i % 2 = 1 THEN 102 ELSE 85],
      <<5, 86, 96, 0, 0, 0, 0, 0, 0, 0, 0, 0>>,
      [i \in 1..10 |-> 0]>>

Bursts == UNION {[1..m -> 1..Len(BurstFrames)] : m \in 1..MaxBurst}

ChunkScenarios ==
    {[kind |-> "burst", fs |-> fs, k |-> 0] : fs \in Bursts}
    \cup {[kind |-> "shifted", fs |-> <<f>>, k |-> 0] : f \in 1..Len(GoodFrames)}
    \cup {[kind |-> "corrupt", fs |-> <<c, f>>, k |-> 0] :
            c \in 1..Len(GoodFrames), f \in 1..Len(GoodFrames)}
    \cup UNION {{[kind |-> "short", fs |-> <<f>>, k |-> k] :
                    k \in 2..(Len(GoodFrames[f]) - 1)} : f \in 1..Len(GoodFrames)}
    \cup {[kind |-> "noise", fs |-> <<>>, k |-> n] : n \in 1..Len(NoiseChunks)}

RECURSIVE Concat(_)
\* the frames of a sequence of frames, back to back
Concat(ss) == IF ss = <<>> THEN <<>> ELSE Head(ss) \o Concat(Tail(ss))

\* the datagram of a scenario
ChunkOf(sc) ==
    CASE sc.kind = "burst" -> Concat([i \in 1..Len(sc.fs) |-> BurstFrames[sc.fs[i]]])
      [] sc.kind = "shifted" -> Shifted(GoodFrames[sc.fs[1]])
      [] sc.kind = "corrupt" -> Corrupt(GoodFrames[sc.fs[1]]) \o GoodFrames[sc.fs[2]]
      [] sc.kind = "short" -> GoodFrames[1] \o SubSeq(GoodFrames[sc.fs[1]], 1, sc.k)
      [] OTHER -> NoiseChunks[sc.k]

ChunkInit ==
    /\ ConnIdle
    /\ RotIdle
    /\ lim = SameLimits
    /\ store = InitStore
    /\ scen \in ChunkScenarios
    /\ chunks = <<ChunkOf(scen)>>
    /\ log = <<>>
    /\ prev = InitStore
    /\ raised = FALSE
    /\ cuts = <<>>
    /\ work = IdleWork
    /\ api = NoCall

\* the receive loop fed the one datagram of a scenario
SpecChunk == ChunkInit /\ [][DecNext]_vars

\* the datagram has been through bufferCallback
Fed == chunks = <<>>

\* C31: the decoder skips whole bytes, so that every packet it cuts out of a
\* datagram starts at a byte of the datagram, that is at an even character of
\* its hex string
C31_ByteBoundary == \A i \in 1..Len(cuts) : cuts[i].at % 2 = 0

\* the length field of a packet: its fifth byte is the high byte, its fourth the low byte
LengthField(packet) == LET b == BytesOf(packet) IN 256 * b[5] + b[4]

\* C32: every packet handed to decodeMsg is 10 + N bytes long, N being its
\* length field read high byte first; a frame alone in its datagram is handed
\* over whole; of a frame cut short behind a whole frame nothing is decoded or
\* dispatched
C32_PacketLength ==
    /\ \A i \in 1..Len(cuts) :
          Len(cuts[i].packet) = 2 * (10 + LengthField(cuts[i].packet))
    /\ Fed /\ scen.kind = "burst" /\ Len(scen.fs) = 1 =>
          cuts = <<[at |-> 0, packet |-> HexOf(BurstFrames[scen.fs[1]])]>>
    /\ Fed /\ scen.kind = "short" =>
          /\ cuts = <<[at |-> 0, packet |-> HexOf(GoodFrames[1])]>>
          /\ log = <<FrameOf(GoodFrames[1])>>
          /\ store = Whole(1).store

\* a frame that lacks its last bytes, its length field received, has been through the decoder
C32_Witness ==
    /\ Fed
    /\ scen.kind = "short"
    /\ scen.k >= 10
    /\ Len(cuts) = 1

\* C33: a datagram of k well-formed frames back to back gives k dispatches,
\* in the order of the frames, each with the command id, payload and sequence
\* number of its frame
C33_Burst ==
    Fed /\ scen.kind = "burst" =>
        log = [i \in 1..Len(scen.fs) |-> FrameOf(BurstFrames[scen.fs[i]])]

\* C34: a packet decodeMsg returns None for reaches no handler and changes no
\* record, and the frame behind it in the datagram is decoded and dispatched
C34_DecodeFails ==
    Fed /\ scen.kind = "corrupt" =>
        /\ Len(cuts) = 2
        /\ cuts[1].packet = HexOf(Corrupt(GoodFrames[scen.fs[1]]))
        /\ log = <<FrameOf(GoodFrames[scen.fs[2]])>>
        /\ store = Whole(scen.fs[2]).store
        /\ ~raised

\* a frame with a wrong checksum and a frame of another command behind it
\* have been through the decoder
C34_Witness ==
    /\ Fed
    /\ scen.kind = "corrupt"
    /\ scen.fs = <<1, 3>>
    /\ ~decodeMsg(cuts[1].packet).ok
    /\ store.hw.seq = 258
    /\ store.att = InitStore.att

(***************************************************************************)
(* The decoder pass by pass: the receive thread at recvfrom or at the test *)
(* of bufferCallback's while loop                                          *)
(***************************************************************************)
\* recvfrom returns the datagram; buff_str = buff.hex()
recvfrom ==
    /\ work.pc = "recvfrom"
    /\ chunks # <<>>
    /\ ~raised
    /\ work' = [pc |-> "while", buff_str |-> HexOf(Head(chunks)),
                total |-> 2 * Len(Head(chunks))]
    /\ prev' = store
    /\ chunks' = Tail(chunks)
    /\ UNCHANGED <<store, log, raised, cuts, scen, api, connVars, rotVars>>

\* the loop's test holds: one pass of its body
loop_pass ==
    /\ work.pc = "while"
    /\ Len(work.buff_str) >= MINIMUM_DATA_LENGTH
    /\ LET it == LoopBody(store, work.buff_str, log)
       IN  /\ store' = it.store
           /\ log' = it.log
           /\ raised' = it.raised
           /\ cuts' = cuts \o [i \in 1..Len(it.cut) |->
                                  [at |-> work.total - it.cut[i].rem,
                                   packet |-> it.cut[i].packet]]
           /\ work' = IF it.brk THEN IdleWork ELSE [work EXCEPT !.buff_str = it.buff_str]
    /\ UNCHANGED <<chunks, prev, scen, api, connVars, rotVars>>

\* the loop's test fails: bufferCallback returns
loop_exit ==
    /\ work.pc = "while"
    /\ Len(work.buff_str) < MINIMUM_DATA_LENGTH
    /\ work' = IdleWork
    /\ UNCHANGED <<store, chunks, log, prev, raised, cuts, scen, api, connVars, rotVars>>

LoopNext == recvfrom \/ loop_pass \/ loop_exit

\* what enables loop_pass
InLoop == work.pc = "while" /\ Len(work.buff_str) >= MINIMUM_DATA_LENGTH

\* the receive thread runs: recvfrom returns when a datagram is there, and no
\* pass of the loop waits for anything.  The last conjunct is the weak
\* fairness of loop_pass, with what enables it written out
SpecLoop ==
    /\ ChunkInit
    /\ [][LoopNext]_vars
    /\ WF_vars(recvfrom)
    /\ WF_vars(loop_exit)
    /\ ([]<>(~InLoop) \/ []<><<loop_pass>>_vars)

\* C35: every pass of the decoder's loop takes at least one character off
\* buff_str or leaves the loop, and the decoding of a datagram ends, whatever
\* the datagram holds; a frame with a length field of 0 is cut out and
\* dispatched as a ten byte packet
C35_Terminates ==
    /\ [][loop_pass => \/ work'.pc = "recvfrom"
                       \/ Len(work'.buff_str) < Len(work.buff_str)]_vars
    /\ <>(Fed /\ work.pc = "recvfrom")
    /\ [](Fed /\ work.pc = "recvfrom" /\ scen.kind = "burst" /\ scen.fs = <<7>> =>
            /\ log = <<FrameOf(BurstFrames[7])>>
            /\ Len(cuts) = 1
            /\ Len(cuts[1].packet) = MINIMUM_DATA_LENGTH)

\* the decoding of a datagram without a header has ended, and so has that of
\* a frame with a length field of 0
C35_Witness ==
    /\ Fed
    /\ work.pc = "recvfrom"
    /\ \/ scen.kind = "noise" /\ log = <<>>
       \/ scen.kind = "burst" /\ scen.fs = <<7>> /\ Len(log) = 1

\* the commands whose frames the datagrams hold, and the records of each
Commands ==
    {ACQUIRE_FW_VER, ACQUIRE_HW_ID, ACQUIRE_GIMBAL_INFO, ACQUIRE_GIMBAL_ATT,
     REQUEST_GIMBAL_CAMERA_IMAGE_MODE, SET_DATA_STREAM}

RecordsOf(c) ==
    CASE c = ACQUIRE_FW_VER -> {"fw"}
      [] c = ACQUIRE_HW_ID -> {"hw"}
      [] c = ACQUIRE_GIMBAL_INFO -> {"rec", "mode", "dir"}
      [] c = ACQUIRE_GIMBAL_ATT -> {"att"}
      [] c = REQUEST_GIMBAL_CAMERA_IMAGE_MODE -> {"img"}
      [] OTHER -> {"stream"}

\* the store after the handler of frame f's command, run on the records resetVars creates
HandlerOn(f) ==
    IF f.cmd_id = SET_DATA_STREAM
    THEN parseRequestStreamMsg(InitStore, f.data, f.seq)
    ELSE Dispatch(InitStore, f)

\* the last frame of command c among the frames dispatched, 0 if there is none
LastOf(c) ==
    LET idx == {i \in 1..Len(log) : log[i].cmd_id = c}
    IN  IF idx = {} THEN 0 ELSE CHOOSE i \in idx : \A j \in idx : j <= i

\* C36: after the frames of a datagram have been dispatched, the records of
\* every command hold the values and the sequence number of the last frame
\* dispatched for it, and the records of a command without a frame are those
\* resetVars created; the three records of a gimbal info frame have its
\* sequence number
C36_LastFrame ==
    Fed /\ scen.kind = "burst" =>
        \A c \in Commands : \A k \in RecordsOf(c) :
            IF LastOf(c) = 0
            THEN store[k] = InitStore[k]
            ELSE /\ store[k] = HandlerOn(log[LastOf(c)])[k]
                 /\ store[k].seq = log[LastOf(c)].seq

====
